---- MODULE Spec2Model ----
(***************************************************************************)
(* Trivia attachment (extract_token_references) and the top-level entry    *)
(* point Ast::from_tokens of full-moon, src/src/ast/mod.rs, together with  *)
(* the rendering helpers of src/src/util.rs.                               *)
(*                                                                         *)
(* A token is a record [token_type, text]; text is the sequence of the     *)
(* characters the token renders to.  An Option<T> is a sequence of length  *)
(* at most one: <<>> is None and <<x>> is Some(x).  Indices of Rust        *)
(* vectors stay 0-based in the cursor (state.index); the TLA+ sequences    *)
(* that hold the vectors are 1-based, so element i of a vector is v[i+1].  *)
(***************************************************************************)
EXTENDS Integers, Sequences, FiniteSets, TLC

VARIABLES
    tokens,           \* the Vec<Token> handed to the entry point
    entry,            \* which function was called: "from_tokens" or "extract_token_references"
    pc,               \* position in the code
    pos,              \* number of tokens the draining iterator has yielded
    token,            \* the significant token held by the outer loop (Option)
    leading_trivia,   \* buffer of extract_token_references
    trailing_trivia,  \* buffer of extract_token_references
    references,       \* the Vec<TokenReference> being built / returned
    state,            \* ParserState: the cursor
    result,           \* what the called function returned
    outcome,          \* what the root grammar production returned (Option)
    calls,            \* the stages that have run
    ast,              \* the Ast the caller of from_tokens holds (Option)
    ret,              \* what the last method called on a value returned (Option)
    node,             \* the syntax node handed to Display (Option)
    roblox            \* whether the "roblox" feature is compiled in

vars == <<tokens, entry, pc, pos, token, leading_trivia, trailing_trivia,
          references, state, result, outcome, calls, ast, ret, node, roblox>>

(***************************************************************************)
(* Bounds                                                                  *)
(***************************************************************************)
MaxLen == 4

(***************************************************************************)
(* Tokens                                                                  *)
(***************************************************************************)
Token(kind, chars) == [token_type |-> kind, text |-> chars]

WsSpace        == Token("Whitespace", <<" ">>)
WsNewline      == Token("Whitespace", <<"\n">>)
WsSpaceNewline == Token("Whitespace", <<" ", "\n">>)
LineComment    == Token("SingleLineComment", <<"-", "-", "c">>)
BlockComment   == Token("MultiLineComment", <<"-", "-", "[", "[", "\n", "]", "]">>)
Ident          == Token("Identifier", <<"a">>)
Paren          == Token("Symbol", <<"(">>)
Eof            == Token("Eof", <<>>)

TokenUniverse ==
    {WsSpace, WsNewline, WsSpaceNewline, LineComment, BlockComment, Ident, Paren, Eof}

\* tokens("print(1)\n-- hello world\nlocal foo -- this is the word foo")
TestTokens ==
    << Token("Identifier", <<"p", "r", "i", "n", "t">>),
       Token("Symbol", <<"(">>),
       Token("Number", <<"1">>),
       Token("Symbol", <<")">>),
       Token("Whitespace", <<"\n">>),
       Token("SingleLineComment", <<"-", "-", " ", "h", "e", "l", "l", "o", " ", "w", "o", "r", "l", "d">>),
       Token("Whitespace", <<"\n">>),
       Token("Symbol", <<"l", "o", "c", "a", "l">>),
       Token("Whitespace", <<" ">>),
       Token("Identifier", <<"f", "o", "o">>),
       Token("Whitespace", <<" ">>),
       Token("SingleLineComment", <<"-", "-", " ", "t", "h", "i", "s", " ", "i", "s", " ", "t", "h", "e", " ", "w", "o", "r", "d", " ", "f", "o", "o">>),
       Token("Eof", <<>>) >>

SeqsUpTo(S, n) == UNION {[1..k -> S] : k \in 0..n}

Inputs == SeqsUpTo(TokenUniverse, MaxLen) \cup {TestTokens}

\* TokenType::is_trivia: whitespace and comments
is_trivia(t) ==
    t.token_type \in {"Whitespace", "SingleLineComment", "MultiLineComment"}

\* TokenType::ignore: the older name of is_trivia
ignore(t) == is_trivia(t)

\* characters.starts_with('\n')
starts_with_newline(chars) == chars # <<>> /\ chars[1] = "\n"

\* breaks_trailing testing for a newline anywhere in the whitespace
breaks_trailing_contains(t) ==
    t.token_type = "Whitespace" /\ \E i \in 1..Len(t.text) : t.text[i] = "\n"

\* breaks_trailing with the newline test left out
breaks_trailing_omitted(t) == FALSE

\* The test that ends the trailing trivia of a reference:
\* if let TokenType::Whitespace { characters } = .. { if characters.starts_with('\n') { break } }
breaks_trailing(t) ==
    t.token_type = "Whitespace" /\ starts_with_newline(t.text)

(***************************************************************************)
(* The draining, peekable iterator over the input                          *)
(***************************************************************************)
\* Peekable::peek after p tokens were yielded
iter_peek(toks, p) == IF p < Len(toks) THEN <<toks[p + 1]>> ELSE <<>>

\* Iterator::next after p tokens were yielded
iter_next(toks, p) == IF p < Len(toks) THEN <<toks[p + 1]>> ELSE <<>>

TokenReference(lead, tok, trail) ==
    [leading_trivia |-> lead, token |-> tok, trailing_trivia |-> trail]

(***************************************************************************)
(* Rendering                                                               *)
(***************************************************************************)
\* Display of a Token: its text
TokenDisplay(t) == t.text

\* join_vec: the items' renderings, concatenated
RECURSIVE join_vec(_)
join_vec(vec) ==
    IF vec = <<>> THEN <<>> ELSE TokenDisplay(Head(vec)) \o join_vec(Tail(vec))

\* Display of a TokenReference: leading trivia, token, trailing trivia
TokenReferenceDisplay(r) ==
    join_vec(r.leading_trivia) \o TokenDisplay(r.token) \o join_vec(r.trailing_trivia)

\* Display of a statement node: the token references it owns, in order
RECURSIVE StmtDisplay(_)
StmtDisplay(stmt) ==
    IF stmt = <<>> THEN <<>>
    ELSE TokenReferenceDisplay(Head(stmt)) \o StmtDisplay(Tail(stmt))

\* display_option applied to an optional token reference
display_option(option) ==
    IF option = <<>> THEN <<>> ELSE TokenReferenceDisplay(option[1])

\* display_optional_punctuated with the separator written before the item
display_optional_punctuated_sep_first(pair) ==
    display_option(pair[2]) \o StmtDisplay(pair[1])

\* display_optional_punctuated: format!("{}{}", pair.0, display_option(&pair.1))
display_optional_punctuated(pair) ==
    StmtDisplay(pair[1]) \o display_option(pair[2])

\* display_optional_punctuated_vec
RECURSIVE display_optional_punctuated_vec(_)
display_optional_punctuated_vec(vec) ==
    IF vec = <<>> THEN <<>>
    ELSE display_optional_punctuated(Head(vec)) \o display_optional_punctuated_vec(Tail(vec))

\* Display of a Block:
\* "{}{}", display_optional_punctuated_vec(stmts),
\*         display_option(&last_stmt.as_ref().map(display_optional_punctuated))
BlockDisplay(block) ==
    display_optional_punctuated_vec(block.stmts)
        \o (IF block.last_stmt = <<>> THEN <<>>
            ELSE display_optional_punctuated(block.last_stmt[1]))

EmptyBlock == [stmts |-> <<>>, last_stmt |-> <<>>]

(***************************************************************************)
(* The cursor                                                              *)
(***************************************************************************)
\* ParserState::new
ParserStateNew == [index |-> 0]

\* ParserState::peek: the reference under the cursor (None stands for its panic)
peek(st, refs) == IF st.index < Len(refs) THEN <<refs[st.index + 1]>> ELSE <<>>

\* ParserState::advance: None when the cursor is on the last reference
advance(st, refs) ==
    IF st.index + 1 < Len(refs) THEN <<[index |-> st.index + 1]>> ELSE <<>>

(***************************************************************************)
(* Results                                                                 *)
(***************************************************************************)
Pending == [tag |-> "Pending", error |-> "", token |-> <<>>, additional |-> <<>>,
            nodes |-> <<>>, tokens |-> <<>>]
Panic(where) == [Pending EXCEPT !.tag = "Panic", !.error = where]
Err(e)  == [Pending EXCEPT !.tag = "Err", !.error = e]
UnexpectedToken(tok, add) ==
    [Pending EXCEPT !.tag = "Err", !.error = "UnexpectedToken",
                    !.token = <<tok>>, !.additional = add]
OkAst(block, refs) ==
    [Pending EXCEPT !.tag = "Ok", !.nodes = <<block>>, !.tokens = refs]
Returned(refs) == [Pending EXCEPT !.tag = "Vec", !.tokens = refs]

\* The Ast { nodes, tokens } inside an Ok result; None for any other result
AstOf(res) ==
    IF res.tag = "Ok" THEN <<[nodes |-> res.nodes[1], tokens |-> res.tokens]>> ELSE <<>>

(***************************************************************************)
(* The root grammar production: any outcome the engine's contract allows   *)
(***************************************************************************)
\* The statement lists that cover references i..k (1-based), each statement
\* owning one reference and optionally followed by a separator reference
RECURSIVE StmtPairs(_, _, _)
StmtPairs(refs, i, k) ==
    IF i > k THEN {<<>>}
    ELSE {<< <<(<<refs[i]>>), <<>> >> >> \o rest : rest \in StmtPairs(refs, i + 1, k)}
         \cup (IF i + 1 <= k
               THEN {<< <<(<<refs[i]>>), <<refs[i + 1]>> >> >> \o rest :
                        rest \in StmtPairs(refs, i + 2, k)}
               ELSE {})

Blocks(refs, i, k) ==
    {[stmts |-> p, last_stmt |-> <<>>] : p \in StmtPairs(refs, i, k)}
    \cup {[stmts |-> SubSeq(p, 1, Len(p) - 1), last_stmt |-> <<p[Len(p)]>>] :
             p \in StmtPairs(refs, i, k) \ {<<>>}}

Hints == {<<>>, <<"expected expression">>}

ParseBlockOutcomes(st, refs) ==
    UNION {{[kind |-> "Ok", state |-> [index |-> k], block |-> b,
             token |-> <<>>, additional |-> <<>>] :
               b \in Blocks(refs, st.index + 1, k)} :
           k \in st.index..(Len(refs) - 1)}
    \cup {[kind |-> "NoMatch", state |-> st, block |-> EmptyBlock,
           token |-> <<>>, additional |-> <<>>]}
    \cup {[kind |-> "UnexpectedToken", state |-> st, block |-> EmptyBlock,
           token |-> <<refs[i].token>>, additional |-> h] :
              i \in (st.index + 1)..Len(refs), h \in Hints}

(***************************************************************************)
(* Ast::from_tokens, piece by piece                                        *)
(***************************************************************************)
\* check_tokens reporting the missing last token as a missing end-of-file
check_tokens_empty_as_noeof(toks) ==
    IF toks = <<>> THEN "NoEof"
    ELSE IF toks[Len(toks)].token_type # "Eof" THEN "NoEof"
    ELSE ""

\* check_tokens looking for an end-of-file token anywhere in the list
check_tokens_any_eof(toks) ==
    IF toks = <<>> THEN "Empty"
    ELSE IF \A i \in 1..Len(toks) : toks[i].token_type # "Eof" THEN "NoEof"
    ELSE ""

\* *tokens.last().ok_or(AstError::Empty)?.token_type() != TokenType::Eof
\* The answer is the error returned, or "" when the tokens are accepted.
check_tokens(toks) ==
    IF toks = <<>> THEN "Empty"
    ELSE IF toks[Len(toks)].token_type # "Eof" THEN "NoEof"
    ELSE ""

\* entirely_trivia counting to 0 instead of 1
entirely_trivia_none(refs) ==
    Cardinality({i \in 1..Len(refs) : ~ignore(refs[i].token)}) = 0

\* tokens.iter().filter(|token| !token.token_type().ignore()).count() == 1
entirely_trivia(refs) ==
    Cardinality({i \in 1..Len(refs) : ~ignore(refs[i].token)}) = 1

\* match_parse comparing the cursor with tokens.len() instead of tokens.len() - 1
match_parse_len(o, start, refs) ==
    CASE o.kind = "Ok" ->
            IF o.state.index = Len(refs)
            THEN OkAst(o.block, refs)
            ELSE IF peek(o.state, refs) = <<>> THEN Panic("peek")
                 ELSE UnexpectedToken(peek(o.state, refs)[1].token,
                                      <<"leftover token">>)
      [] o.kind = "NoMatch" ->
            IF peek(start, refs) = <<>> THEN Panic("peek")
            ELSE UnexpectedToken(peek(start, refs)[1].token, <<>>)
      [] o.kind = "UnexpectedToken" ->
            UnexpectedToken(o.token[1], o.additional)

\* match_parse without the test of the resulting cursor
match_parse_no_leftover(o, start, refs) ==
    CASE o.kind = "Ok" -> OkAst(o.block, refs)
      [] o.kind = "NoMatch" ->
            IF peek(start, refs) = <<>> THEN Panic("peek")
            ELSE UnexpectedToken(peek(start, refs)[1].token, <<>>)
      [] o.kind = "UnexpectedToken" ->
            UnexpectedToken(o.token[1], o.additional)

\* match_parse reporting the token under the starting cursor, without the hint,
\* for every failure of the root production
match_parse_drops_error(o, start, refs) ==
    CASE o.kind = "Ok" ->
            IF o.state.index = Len(refs) - 1
            THEN OkAst(o.block, refs)
            ELSE IF peek(o.state, refs) = <<>> THEN Panic("peek")
                 ELSE UnexpectedToken(peek(o.state, refs)[1].token,
                                      <<"leftover token">>)
      [] o.kind \in {"NoMatch", "UnexpectedToken"} ->
            IF peek(start, refs) = <<>> THEN Panic("peek")
            ELSE UnexpectedToken(peek(start, refs)[1].token, <<>>)

\* match_parse reporting a NoMatch at the end of the references, with a hint
match_parse_nomatch_at_end(o, start, refs) ==
    CASE o.kind = "Ok" ->
            IF o.state.index = Len(refs) - 1
            THEN OkAst(o.block, refs)
            ELSE IF peek(o.state, refs) = <<>> THEN Panic("peek")
                 ELSE UnexpectedToken(peek(o.state, refs)[1].token,
                                      <<"leftover token">>)
      [] o.kind = "NoMatch" ->
            UnexpectedToken(refs[Len(refs)].token, <<"no match">>)
      [] o.kind = "UnexpectedToken" ->
            UnexpectedToken(o.token[1], o.additional)

\* match_parse handing the internal NoMatch to the caller
match_parse_surfaces_nomatch(o, start, refs) ==
    CASE o.kind = "Ok" ->
            IF o.state.index = Len(refs) - 1
            THEN OkAst(o.block, refs)
            ELSE IF peek(o.state, refs) = <<>> THEN Panic("peek")
                 ELSE UnexpectedToken(peek(o.state, refs)[1].token,
                                      <<"leftover token">>)
      [] o.kind = "NoMatch" -> Err("NoMatch")
      [] o.kind = "UnexpectedToken" ->
            UnexpectedToken(o.token[1], o.additional)

\* The arms of match parsers::ParseBlock.parse(state.clone()); start is the
\* cursor the production was started at (the state the error arms peek at).
match_parse(o, start, refs) ==
    CASE o.kind = "Ok" ->
            IF o.state.index = Len(refs) - 1
            THEN OkAst(o.block, refs)
            ELSE IF peek(o.state, refs) = <<>> THEN Panic("peek")
                 ELSE UnexpectedToken(peek(o.state, refs)[1].token,
                                      <<"leftover token">>)
      [] o.kind = "NoMatch" ->
            IF peek(start, refs) = <<>> THEN Panic("peek")
            ELSE UnexpectedToken(peek(start, refs)[1].token, <<>>)
      [] o.kind = "UnexpectedToken" ->
            UnexpectedToken(o.token[1], o.additional)


(***************************************************************************)
(* Methods of the returned Ast                                             *)
(***************************************************************************)
\* What a method call returned: the value, or a panic
Ret(method, tag, value) == [method |-> method, tag |-> tag, value |-> value]

\* Ast::eof taking the first reference instead of the last
eof_first(a) ==
    IF a.tokens = <<>> THEN Ret("eof", "Panic", <<>>)
    ELSE Ret("eof", "Ok", <<a.tokens[1]>>)

\* Ast::eof: self.tokens.last().expect("no eof token, somehow?")
eof(a) ==
    IF a.tokens = <<>> THEN Ret("eof", "Panic", <<>>)
    ELSE Ret("eof", "Ok", <<a.tokens[Len(a.tokens)]>>)

\* Ast::nodes_mut: &mut self.nodes; what a caller can leave in the Block
\* through the reference (here: clear it, or drop the last statement)
nodes_mut(a) == {EmptyBlock, [a.nodes EXCEPT !.last_stmt = <<>>]}

\* Block::iter_stmts yielding the last statement as well
RECURSIVE iter_stmts_with_last(_)
iter_stmts_with_last(block) ==
    IF block.stmts = <<>>
    THEN (IF block.last_stmt = <<>> THEN <<>> ELSE <<block.last_stmt[1][1]>>)
    ELSE <<Head(block.stmts)[1]>>
            \o iter_stmts_with_last([block EXCEPT !.stmts = Tail(block.stmts)])

\* Block::iter_stmts: self.stmts.iter().map(|(stmt, _)| stmt)
RECURSIVE iter_stmts(_)
iter_stmts(block) ==
    IF block.stmts = <<>> THEN <<>>
    ELSE <<Head(block.stmts)[1]>>
            \o iter_stmts([block EXCEPT !.stmts = Tail(block.stmts)])

\* ast.nodes().iter_stmts(), collected
nodes_iter_stmts(a) == Ret("nodes.iter_stmts", "Ok", iter_stmts(a.nodes))

\* Ast::iter_tokens: unimplemented!("Ast::iter_tokens")
iter_tokens(a) == Ret("iter_tokens", "Panic", <<>>)

\* Ast::nodes().to_string(): the Display of the root Block
nodes_to_string(a) == Ret("nodes.to_string", "Ok", BlockDisplay(a.nodes))

(***************************************************************************)
(* Initial states: a call of either function on any input                  *)
(***************************************************************************)
Init ==
    /\ tokens \in Inputs
    /\ entry \in {"from_tokens", "extract_token_references"}
    /\ pc = (IF entry = "from_tokens" THEN "from_tokens" ELSE "next")
    /\ calls = (IF entry = "from_tokens" THEN {} ELSE {"extract_token_references"})
    /\ pos = 0
    /\ token = <<>>
    /\ leading_trivia = <<>>
    /\ trailing_trivia = <<>>
    /\ references = <<>>
    /\ state = ParserStateNew
    /\ result = Pending
    /\ outcome = <<>>
    /\ ast = <<>>
    /\ ret = <<>>
    /\ node = <<>>
    /\ roblox = FALSE

(***************************************************************************)
(* Actions                                                                 *)
(***************************************************************************)
\* from_tokens, lines 1282-1285: reject or hand the tokens to attachment
FromTokensCheck ==
    /\ UNCHANGED <<ast, ret, node, roblox>>
    /\ pc = "from_tokens"
    /\ IF check_tokens(tokens) # ""
       THEN /\ result' = Err(check_tokens(tokens))
            /\ pc' = "done"
            /\ calls' = calls
       ELSE /\ result' = result
            /\ pc' = "next"
            /\ calls' = calls \cup {"extract_token_references"}
    /\ UNCHANGED <<tokens, entry, pos, token, leading_trivia, trailing_trivia,
                   references, state, outcome>>

\* OuterNext buffering only whitespace, so that a comment becomes a reference
OuterNext_comment_reference ==
    /\ UNCHANGED <<ast, ret, node, roblox>>
    /\ pc = "next"
    /\ iter_next(tokens, pos) # <<>>
    /\ LET t == iter_next(tokens, pos)[1] IN
         /\ pos' = pos + 1
         /\ IF t.token_type = "Whitespace"
            THEN /\ leading_trivia' = Append(leading_trivia, t)
                 /\ UNCHANGED <<token, pc>>
            ELSE /\ token' = <<t>>
                 /\ pc' = "peek"
                 /\ UNCHANGED leading_trivia
    /\ UNCHANGED <<tokens, entry, trailing_trivia, references, state, result, outcome, calls>>

\* while let Some(token) = tokens.next(): a token is there
OuterNext ==
    /\ UNCHANGED <<ast, ret, node, roblox>>
    /\ pc = "next"
    /\ iter_next(tokens, pos) # <<>>
    /\ LET t == iter_next(tokens, pos)[1] IN
         /\ pos' = pos + 1
         /\ IF is_trivia(t)
            THEN /\ leading_trivia' = Append(leading_trivia, t)
                 /\ UNCHANGED <<token, pc>>
            ELSE /\ token' = <<t>>
                 /\ pc' = "peek"
                 /\ UNCHANGED leading_trivia
    /\ UNCHANGED <<tokens, entry, trailing_trivia, references, state, result, outcome, calls>>

\* TrailingPush pushing the peeked token without taking it from the iterator
TrailingPush_no_advance ==
    /\ UNCHANGED <<ast, ret, node, roblox>>
    /\ pc = "peek"
    /\ iter_peek(tokens, pos) # <<>>
    /\ is_trivia(iter_peek(tokens, pos)[1])
    /\ ~breaks_trailing(iter_peek(tokens, pos)[1])
    /\ trailing_trivia' = Append(trailing_trivia, iter_peek(tokens, pos)[1])
    /\ UNCHANGED <<tokens, entry, pc, pos, token, leading_trivia, references, state,
                   result, outcome, calls>>

\* while let Some(token) = tokens.peek(): a trivia token that does not end the
\* trailing trivia is taken with tokens.next().unwrap()
TrailingPush ==
    /\ UNCHANGED <<ast, ret, node, roblox>>
    /\ pc = "peek"
    /\ iter_peek(tokens, pos) # <<>>
    /\ is_trivia(iter_peek(tokens, pos)[1])
    /\ ~breaks_trailing(iter_peek(tokens, pos)[1])
    /\ IF iter_next(tokens, pos) = <<>>
       THEN /\ result' = Panic("extract_token_references")
            /\ pc' = "done"
            /\ UNCHANGED <<trailing_trivia, pos>>
       ELSE /\ trailing_trivia' = Append(trailing_trivia, iter_next(tokens, pos)[1])
            /\ pos' = pos + 1
            /\ UNCHANGED <<result, pc>>
    /\ UNCHANGED <<tokens, entry, token, leading_trivia, references, state, outcome, calls>>

\* PushReference copying the trailing buffer instead of draining it
PushReference_keeps_trailing ==
    /\ UNCHANGED <<ast, ret, node, roblox>>
    /\ pc = "peek"
    /\ \/ iter_peek(tokens, pos) = <<>>
       \/ /\ iter_peek(tokens, pos) # <<>>
          /\ \/ ~is_trivia(iter_peek(tokens, pos)[1])
             \/ breaks_trailing(iter_peek(tokens, pos)[1])
    /\ references' = Append(references,
                            TokenReference(leading_trivia, token[1], trailing_trivia))
    /\ leading_trivia' = <<>>
    /\ token' = <<>>
    /\ pc' = "next"
    /\ UNCHANGED <<tokens, entry, pos, trailing_trivia, state, result, outcome, calls>>

\* the inner loop ends (no token, a significant token, or newline whitespace):
\* references.push(TokenReference { .. }) with both buffers drained
PushReference ==
    /\ UNCHANGED <<ast, ret, node, roblox>>
    /\ pc = "peek"
    /\ \/ iter_peek(tokens, pos) = <<>>
       \/ /\ iter_peek(tokens, pos) # <<>>
          /\ \/ ~is_trivia(iter_peek(tokens, pos)[1])
             \/ breaks_trailing(iter_peek(tokens, pos)[1])
    /\ references' = Append(references,
                            TokenReference(leading_trivia, token[1], trailing_trivia))
    /\ leading_trivia' = <<>>
    /\ trailing_trivia' = <<>>
    /\ token' = <<>>
    /\ pc' = "next"
    /\ UNCHANGED <<tokens, entry, pos, state, result, outcome, calls>>

\* ExtractReturn handing what is left in the leading buffer to the last
\* reference as trailing trivia
ExtractReturn_flushes_leading ==
    /\ UNCHANGED <<ast, ret, node, roblox>>
    /\ pc = "next"
    /\ iter_next(tokens, pos) = <<>>
    /\ IF entry = "extract_token_references"
       THEN /\ result' =
                 Returned(IF references = <<>> THEN references
                          ELSE [references EXCEPT ![Len(references)].trailing_trivia =
                                   @ \o leading_trivia])
            /\ pc' = "done"
       ELSE /\ result' = result
            /\ pc' = "filter"
    /\ UNCHANGED <<tokens, entry, pos, token, leading_trivia, trailing_trivia,
                   references, state, outcome, calls>>

\* tokens.next() is None: extract_token_references returns references
ExtractReturn ==
    /\ UNCHANGED <<ast, ret, node, roblox>>
    /\ pc = "next"
    /\ iter_next(tokens, pos) = <<>>
    /\ IF entry = "extract_token_references"
       THEN /\ result' = Returned(references)
            /\ pc' = "done"
       ELSE /\ result' = result
            /\ pc' = "filter"
    /\ UNCHANGED <<tokens, entry, pos, token, leading_trivia, trailing_trivia,
                   references, state, outcome, calls>>

\* ShortCircuit advancing the starting cursor whatever token it is on
ShortCircuit_always_advance ==
    /\ pc = "filter"
    /\ IF entirely_trivia(references)
       THEN /\ result' = OkAst(EmptyBlock, references)
            /\ pc' = "done"
            /\ state' = ParserStateNew
       ELSE IF advance(ParserStateNew, references) = <<>>
            THEN /\ result' = Panic("advance")
                 /\ pc' = "done"
                 /\ state' = ParserStateNew
            ELSE /\ state' = advance(ParserStateNew, references)[1]
                 /\ pc' = "parse"
                 /\ result' = result
    /\ ast' = AstOf(result')
    /\ UNCHANGED <<tokens, entry, pos, token, leading_trivia, trailing_trivia,
                   references, outcome, calls, ret, node, roblox>>

\* from_tokens, lines 1286-1307: the short-circuit for input that is entirely
\* trivia, and the conditional advance of the starting cursor
ShortCircuit ==
    /\ pc = "filter"
    /\ IF entirely_trivia(references)
       THEN /\ result' = OkAst(EmptyBlock, references)
            /\ pc' = "done"
            /\ state' = ParserStateNew
       ELSE IF peek(ParserStateNew, references) = <<>>
            THEN /\ result' = Panic("peek")
                 /\ pc' = "done"
                 /\ state' = ParserStateNew
            ELSE IF ignore(peek(ParserStateNew, references)[1].token)
                 THEN IF advance(ParserStateNew, references) = <<>>
                      THEN /\ result' = Panic("advance")
                           /\ pc' = "done"
                           /\ state' = ParserStateNew
                      ELSE /\ state' = advance(ParserStateNew, references)[1]
                           /\ pc' = "parse"
                           /\ result' = result
                 ELSE /\ state' = ParserStateNew
                      /\ pc' = "parse"
                      /\ result' = result
    /\ ast' = AstOf(result')
    /\ UNCHANGED <<tokens, entry, pos, token, leading_trivia, trailing_trivia,
                   references, outcome, calls, ret, node, roblox>>

\* from_tokens, lines 1309-1336: run the root production and match on its outcome
ParseBlock ==
    /\ pc = "parse"
    /\ \E o \in ParseBlockOutcomes(state, references) :
         /\ outcome' = <<o>>
         /\ result' = match_parse(o, state, references)
    /\ calls' = calls \cup {"ParseBlock"}
    /\ pc' = "done"
    /\ ast' = AstOf(result')
    /\ UNCHANGED <<tokens, entry, pos, token, leading_trivia, trailing_trivia,
                   references, state, ret, node, roblox>>

\* the caller asks the returned Ast for its end-of-file reference
AstEof ==
    /\ pc = "done"
    /\ ast # <<>>
    /\ ret' = <<eof(ast[1])>>
    /\ UNCHANGED <<tokens, entry, pc, pos, token, leading_trivia, trailing_trivia,
                   references, state, result, outcome, calls, ast, node, roblox>>

\* the caller asks the returned Ast for its tokens
AstIterTokens ==
    /\ pc = "done"
    /\ ast # <<>>
    /\ ret' = <<iter_tokens(ast[1])>>
    /\ UNCHANGED <<tokens, entry, pc, pos, token, leading_trivia, trailing_trivia,
                   references, state, result, outcome, calls, ast, node, roblox>>

\* the caller renders the root Block of the returned Ast
NodesDisplay ==
    /\ pc = "done"
    /\ ast # <<>>
    /\ ret' = <<nodes_to_string(ast[1])>>
    /\ UNCHANGED <<tokens, entry, pc, pos, token, leading_trivia, trailing_trivia,
                   references, state, result, outcome, calls, ast, node, roblox>>

\* the caller iterates over the statements of the root Block
AstIterStmts ==
    /\ pc = "done"
    /\ ast # <<>>
    /\ ret' = <<nodes_iter_stmts(ast[1])>>
    /\ UNCHANGED <<tokens, entry, pc, pos, token, leading_trivia, trailing_trivia,
                   references, state, result, outcome, calls, ast, node, roblox>>

\* AstNodesMut writing to the stored references as well
AstNodesMut_drops_reference ==
    /\ pc = "done"
    /\ ast # <<>>
    /\ \E b \in nodes_mut(ast[1]) :
          ast' = <<[nodes |-> b,
                    tokens |-> SubSeq(ast[1].tokens, 1, Len(ast[1].tokens) - 1)]>>
    /\ ret' = <<Ret("nodes_mut", "Ok", <<>>)>>
    /\ UNCHANGED <<tokens, entry, pc, pos, token, leading_trivia, trailing_trivia,
                   references, state, result, outcome, calls, node, roblox>>

\* the caller edits the root Block through nodes_mut(); the reference it
\* holds borrows self.nodes only
AstNodesMut ==
    /\ pc = "done"
    /\ ast # <<>>
    /\ \E b \in nodes_mut(ast[1]) :
          ast' = <<[ast[1] EXCEPT !.nodes = b]>>
    /\ ret' = <<Ret("nodes_mut", "Ok", <<>>)>>
    /\ UNCHANGED <<tokens, entry, pc, pos, token, leading_trivia, trailing_trivia,
                   references, state, result, outcome, calls, node, roblox>>

Next ==
    \/ FromTokensCheck
    \/ OuterNext
    \/ TrailingPush
    \/ PushReference
    \/ ExtractReturn
    \/ ShortCircuit
    \/ ParseBlock
    \/ AstEof
    \/ AstIterTokens
    \/ NodesDisplay
    \/ AstIterStmts
    \/ AstNodesMut

Spec == Init /\ [][Next]_vars

FairSpec == Spec /\ WF_vars(Next)

(***************************************************************************)
(* Rendering of single nodes (impl Display), with and without the roblox   *)
(* feature                                                                 *)
(***************************************************************************)
\* A token reference without trivia, and one followed by a space
Ref(type, text) == TokenReference(<<>>, Token(type, text), <<>>)

RefSp(type, text) == TokenReference(<<>>, Token(type, text), <<WsSpace>>)

\* ContainedSpan: the two delimiter token references
ContainedSpan(open, close) == [tokens |-> <<open, close>>]

ContainedSpans ==
    { ContainedSpan(Ref("Symbol", <<"(">>), Ref("Symbol", <<")">>)),
      ContainedSpan(RefSp("Symbol", <<"[">>), Ref("Symbol", <<"]">>)),
      ContainedSpan(Ref("Symbol", <<"{">>), RefSp("Symbol", <<"}">>)) }

\* The token references an Expression or a Punctuated list owns, in order
NodeRefs == { Ref("Identifier", <<"a">>), RefSp("Symbol", <<",">>), Ref("Number", <<"1">>) }

Contents == SeqsUpTo(NodeRefs, 2)

\* Vec<(Field, Option<separator>)> of a TableConstructor
TableFields ==
    SeqsUpTo({ <<<<r>>, sep>> : r \in {Ref("Identifier", <<"a">>), Ref("Number", <<"1">>)},
                                 sep \in {<<>>, <<RefSp("Symbol", <<",">>)>>} }, 2)

TableConstructors ==
    { [kind |-> "TableConstructor", braces |-> sp, fields |-> f] :
         sp \in ContainedSpans, f \in TableFields }

ExpressionParentheses ==
    { [kind |-> "Expression::Parentheses", contained |-> sp, expression |-> e] :
         sp \in ContainedSpans, e \in Contents \ {<<>>} }

IndexBrackets ==
    { [kind |-> "Index::Brackets", brackets |-> sp, expression |-> e] :
         sp \in ContainedSpans, e \in Contents \ {<<>>} }

FunctionArgsParentheses ==
    { [kind |-> "FunctionArgs::Parentheses", arguments |-> a, parentheses |-> sp] :
         a \in Contents, sp \in ContainedSpans }

FieldExpressionKeys ==
    { [kind |-> "Field::ExpressionKey", brackets |-> sp, key |-> k,
       equal |-> RefSp("Symbol", <<"=">>), value |-> v] :
         sp \in ContainedSpans,
         k \in {<<Ref("Identifier", <<"a">>)>>},
         v \in {<<Ref("Number", <<"1">>)>>, <<Ref("Identifier", <<"a">>)>>} }

\* type_specifiers and return_type exist only with the roblox feature
TypeSpecifier == <<RefSp("Symbol", <<":">>), Ref("Identifier", <<"a">>)>>

FunctionBodies(rbx) ==
    { [kind |-> "FunctionBody", parameters_parantheses |-> sp, parameters |-> ps,
       type_specifiers |-> ts, return_type |-> rt,
       block |-> b, end_token |-> Ref("Symbol", <<"e", "n", "d">>)] :
         sp \in ContainedSpans,
         ps \in {<<>>, <<RefSp("Identifier", <<"a">>)>>},
         ts \in (IF rbx THEN {<<>>, TypeSpecifier} ELSE {<<>>}),
         rt \in (IF rbx THEN {<<>>, TypeSpecifier} ELSE {<<>>}),
         b \in {EmptyBlock,
                [stmts |-> <<>>, last_stmt |-> <<<<<<Ref("Identifier", <<"a">>)>>, <<>>>>>>]} }

LocalAssignments ==
    { n \in [kind : {"LocalAssignment"},
             local_token : {RefSp("Symbol", <<"l", "o", "c", "a", "l">>)},
             name_list : {<<RefSp("Identifier", <<"a">>)>>,
                          <<Ref("Identifier", <<"a">>), RefSp("Symbol", <<",">>),
                            RefSp("Identifier", <<"b">>)>>},
             equal_token : {<<>>, <<RefSp("Symbol", <<"=">>)>>},
             expr_list : Contents] :
         (n.expr_list = <<>>) <=> (n.equal_token = <<>>) }

\* "{}{}{}", braces.tokens().0, display_optional_punctuated_vec(fields), braces.tokens().1
TableConstructorDisplay(n) ==
    Ret(n.kind, "Ok",
        TokenReferenceDisplay(n.braces.tokens[1])
           \o display_optional_punctuated_vec(n.fields)
           \o TokenReferenceDisplay(n.braces.tokens[2]))

\* "{}{}{}", contained.tokens().0, expression, contained.tokens().1
ExpressionParenthesesDisplay(n) ==
    Ret(n.kind, "Ok",
        TokenReferenceDisplay(n.contained.tokens[1])
           \o StmtDisplay(n.expression)
           \o TokenReferenceDisplay(n.contained.tokens[2]))

\* "{}{}{}", brackets.tokens().0, expression, brackets.tokens().1
IndexBracketsDisplay(n) ==
    Ret(n.kind, "Ok",
        TokenReferenceDisplay(n.brackets.tokens[1])
           \o StmtDisplay(n.expression)
           \o TokenReferenceDisplay(n.brackets.tokens[2]))

\* FunctionArgs::Parentheses written in the order its fields are declared
FunctionArgsParenthesesDisplay_declared(n) ==
    Ret(n.kind, "Ok",
        StmtDisplay(n.arguments)
           \o TokenReferenceDisplay(n.parentheses.tokens[1])
           \o TokenReferenceDisplay(n.parentheses.tokens[2]))

\* "{}{}{}", parentheses.tokens().0, arguments, parentheses.tokens().1
FunctionArgsParenthesesDisplay(n) ==
    Ret(n.kind, "Ok",
        TokenReferenceDisplay(n.parentheses.tokens[1])
           \o StmtDisplay(n.arguments)
           \o TokenReferenceDisplay(n.parentheses.tokens[2]))

\* "{}{}{}{}{}", brackets.tokens().0, key, brackets.tokens().1, equal, value
FieldExpressionKeyDisplay(n) ==
    Ret(n.kind, "Ok",
        TokenReferenceDisplay(n.brackets.tokens[1])
           \o StmtDisplay(n.key)
           \o TokenReferenceDisplay(n.brackets.tokens[2])
           \o TokenReferenceDisplay(n.equal)
           \o StmtDisplay(n.value))

\* parameters_parantheses.tokens().0, parameters, parameters_parantheses.tokens().1,
\* [roblox: type_specifiers, return_type,] block, end_token
FunctionBodyDisplay(n, rbx) ==
    Ret(n.kind, "Ok",
        TokenReferenceDisplay(n.parameters_parantheses.tokens[1])
           \o StmtDisplay(n.parameters)
           \o TokenReferenceDisplay(n.parameters_parantheses.tokens[2])
           \o (IF rbx THEN StmtDisplay(n.type_specifiers) \o StmtDisplay(n.return_type)
               ELSE <<>>)
           \o BlockDisplay(n.block)
           \o TokenReferenceDisplay(n.end_token))

\* impl fmt::Display for LocalAssignment: unimplemented!() with the roblox
\* feature, the four writes without it
LocalAssignmentDisplay(n, rbx) ==
    IF rbx THEN Ret(n.kind, "Panic", <<>>)
    ELSE Ret(n.kind, "Ok",
             TokenReferenceDisplay(n.local_token)
                \o StmtDisplay(n.name_list)
                \o display_option(n.equal_token)
                \o StmtDisplay(n.expr_list))

\* The build is chosen once; no node has been rendered yet
RenderInit ==
    /\ roblox \in BOOLEAN
    /\ node = <<>>
    /\ ret = <<>>
    /\ entry = "to_string"
    /\ pc = "to_string"
    /\ tokens = <<>>
    /\ calls = {}
    /\ pos = 0
    /\ token = <<>>
    /\ leading_trivia = <<>>
    /\ trailing_trivia = <<>>
    /\ references = <<>>
    /\ state = ParserStateNew
    /\ result = Pending
    /\ outcome = <<>>
    /\ ast = <<>>

\* to_string() on a table constructor
RenderTableConstructor ==
    /\ entry = "to_string"
    /\ \E n \in TableConstructors :
          /\ node' = <<n>>
          /\ ret' = <<TableConstructorDisplay(n)>>
    /\ UNCHANGED <<tokens, entry, pc, pos, token, leading_trivia, trailing_trivia,
                   references, state, result, outcome, calls, ast, roblox>>

\* to_string() on a parenthesised expression
RenderExpressionParentheses ==
    /\ entry = "to_string"
    /\ \E n \in ExpressionParentheses :
          /\ node' = <<n>>
          /\ ret' = <<ExpressionParenthesesDisplay(n)>>
    /\ UNCHANGED <<tokens, entry, pc, pos, token, leading_trivia, trailing_trivia,
                   references, state, result, outcome, calls, ast, roblox>>

\* to_string() on a bracket index
RenderIndexBrackets ==
    /\ entry = "to_string"
    /\ \E n \in IndexBrackets :
          /\ node' = <<n>>
          /\ ret' = <<IndexBracketsDisplay(n)>>
    /\ UNCHANGED <<tokens, entry, pc, pos, token, leading_trivia, trailing_trivia,
                   references, state, result, outcome, calls, ast, roblox>>

\* to_string() on parenthesised call arguments
RenderFunctionArgsParentheses ==
    /\ entry = "to_string"
    /\ \E n \in FunctionArgsParentheses :
          /\ node' = <<n>>
          /\ ret' = <<FunctionArgsParenthesesDisplay(n)>>
    /\ UNCHANGED <<tokens, entry, pc, pos, token, leading_trivia, trailing_trivia,
                   references, state, result, outcome, calls, ast, roblox>>

\* to_string() on an expression-key field
RenderFieldExpressionKey ==
    /\ entry = "to_string"
    /\ \E n \in FieldExpressionKeys :
          /\ node' = <<n>>
          /\ ret' = <<FieldExpressionKeyDisplay(n)>>
    /\ UNCHANGED <<tokens, entry, pc, pos, token, leading_trivia, trailing_trivia,
                   references, state, result, outcome, calls, ast, roblox>>

\* to_string() on a function body
RenderFunctionBody ==
    /\ entry = "to_string"
    /\ \E n \in FunctionBodies(roblox) :
          /\ node' = <<n>>
          /\ ret' = <<FunctionBodyDisplay(n, roblox)>>
    /\ UNCHANGED <<tokens, entry, pc, pos, token, leading_trivia, trailing_trivia,
                   references, state, result, outcome, calls, ast, roblox>>

\* to_string() on a local assignment
RenderLocalAssignment ==
    /\ entry = "to_string"
    /\ \E n \in LocalAssignments :
          /\ node' = <<n>>
          /\ ret' = <<LocalAssignmentDisplay(n, roblox)>>
    /\ UNCHANGED <<tokens, entry, pc, pos, token, leading_trivia, trailing_trivia,
                   references, state, result, outcome, calls, ast, roblox>>

RenderNext ==
    \/ RenderTableConstructor
    \/ RenderExpressionParentheses
    \/ RenderIndexBrackets
    \/ RenderFunctionArgsParentheses
    \/ RenderFieldExpressionKey
    \/ RenderFunctionBody
    \/ RenderLocalAssignment

RenderSpec == RenderInit /\ [][RenderNext]_vars

(***************************************************************************)
(* Vocabulary of the properties                                            *)
(***************************************************************************)
EndsInEof(toks) == toks # <<>> /\ toks[Len(toks)].token_type = "Eof"

contains_newline(chars) == \E i \in 1..Len(chars) : chars[i] = "\n"

NewlineWhitespace(t) == t.token_type = "Whitespace" /\ contains_newline(t.text)

LeadingNewlineWhitespace(t) ==
    t.token_type = "Whitespace" /\ t.text # <<>> /\ t.text[1] = "\n"

\* The tokens held by a reference sequence, in the order they are stored
RECURSIVE Flatten(_)
Flatten(refs) ==
    IF refs = <<>> THEN <<>>
    ELSE Head(refs).leading_trivia \o <<Head(refs).token>>
            \o Head(refs).trailing_trivia \o Flatten(Tail(refs))

\* The text a reference sequence renders to
RECURSIVE ConcatReferences(_)
ConcatReferences(refs) ==
    IF refs = <<>> THEN <<>>
    ELSE TokenReferenceDisplay(Head(refs)) \o ConcatReferences(Tail(refs))

\* The positions of the significant tokens of an input, ascending
SigPositions(toks) ==
    SelectSeq([i \in 1..Len(toks) |-> i], LAMBDA i : ~is_trivia(toks[i]))

\* The trivia run between the i-th and the (i+1)-th significant token
TriviaRun(toks, i) ==
    SubSeq(toks, SigPositions(toks)[i] + 1, SigPositions(toks)[i + 1] - 1)

\* Length of the longest prefix of a run without newline whitespace
CleanPrefixLen(run) ==
    CHOOSE n \in 0..Len(run) :
        /\ \A j \in 1..n : ~NewlineWhitespace(run[j])
        /\ n = Len(run) \/ NewlineWhitespace(run[n + 1])

\* extract_token_references has returned and references is what it returned
Extracted ==
    \/ pc \in {"filter", "parse"}
    \/ pc = "done" /\ "extract_token_references" \in calls /\ result.tag # "Panic"

(***************************************************************************)
(* C1: for every token sequence whose last token is end-of-file, the       *)
(* references returned by extract_token_references, rendered in order as   *)
(* leading trivia, token, trailing trivia, give the concatenation of the   *)
(* input tokens' texts; the tokens themselves are all there, once each and *)
(* in input order.                                                         *)
(***************************************************************************)
C1_Lossless ==
    (Extracted /\ EndsInEof(tokens)) =>
        /\ ConcatReferences(references) = join_vec(tokens)
        /\ Flatten(references) = tokens

C1_Witness ==
    /\ Extracted
    /\ EndsInEof(tokens)
    /\ Len(references) >= 2
    /\ \E i \in 1..Len(references) :
          references[i].leading_trivia # <<>> /\ references[i].trailing_trivia # <<>>

(***************************************************************************)
(* C2: whenever Ast::from_tokens succeeds, rendering the resulting tree    *)
(* gives the concatenation of the input tokens' texts, the trivia before   *)
(* the end-of-file token included.                                         *)
(***************************************************************************)
C2_RoundTrip ==
    (entry = "from_tokens" /\ pc = "done" /\ result.tag = "Ok") =>
        BlockDisplay(result.nodes[1]) = join_vec(tokens)

(***************************************************************************)
(* C3: no reference's trailing trivia holds a whitespace token whose text  *)
(* contains a newline; such a token and the trivia after it, up to the     *)
(* next significant token, are in the next reference's leading trivia.     *)
(***************************************************************************)
C3_NoNewlineWhitespaceTrailing ==
    Extracted =>
        /\ \A i \in 1..Len(references) :
              \A j \in 1..Len(references[i].trailing_trivia) :
                 ~NewlineWhitespace(references[i].trailing_trivia[j])
        /\ \A i \in 1..(Len(references) - 1) :
              LET run == TriviaRun(tokens, i) IN
                 \A j \in 1..Len(run) :
                    NewlineWhitespace(run[j]) =>
                       \E k \in 1..Len(references[i + 1].leading_trivia) :
                          /\ Len(references[i + 1].leading_trivia) - k = Len(run) - j
                          /\ SubSeq(references[i + 1].leading_trivia, k,
                                    Len(references[i + 1].leading_trivia))
                               = SubSeq(run, j, Len(run))

C5_LongestPrefixSplit ==
    Extracted =>
        /\ \A i \in 1..(Len(references) - 1) :
              LET run == TriviaRun(tokens, i)
                  n   == CleanPrefixLen(run)
              IN /\ references[i].trailing_trivia = SubSeq(run, 1, n)
                 /\ references[i + 1].leading_trivia = SubSeq(run, n + 1, Len(run))
        /\ tokens = TestTokens =>
              /\ Len(references) = 7
              /\ references[5].token = TestTokens[8]
              /\ references[5].leading_trivia
                    = <<TestTokens[5], TestTokens[6], TestTokens[7]>>
              /\ references[6].trailing_trivia = <<TestTokens[11], TestTokens[12]>>

(***************************************************************************)
(* C6: extract_token_references is total on every finite token sequence    *)
(* ending in end-of-file: the unwrap after a successful peek never fails,  *)
(* the loops end, and at the return every input token has been taken from  *)
(* the iterator and sits in the references exactly once.                   *)
(***************************************************************************)
InExtract == pc \in {"next", "peek"}

\* What is left to do inside extract_token_references: the tokens not yet
\* taken, and the position in the two loops
Remaining ==
    2 * (Len(tokens) - pos)
        + (IF pc = "next" THEN 1 ELSE IF pc = "peek" THEN 2 ELSE 0)

C6_Total ==
    /\ [](~(result.tag = "Panic" /\ result.error = "extract_token_references"))
    /\ []((Extracted /\ EndsInEof(tokens)) =>
             (pos = Len(tokens) /\ Flatten(references) = tokens))
    /\ [][InExtract => Remaining' < Remaining]_vars
    /\ (InExtract /\ EndsInEof(tokens)) ~> Extracted

C6_Witness ==
    /\ Extracted
    /\ EndsInEof(tokens)
    /\ \E i \in 1..Len(references) : Len(references[i].trailing_trivia) >= 2

(***************************************************************************)
(* C7: when every token but the final end-of-file token is trivia,         *)
(* Ast::from_tokens succeeds without invoking the grammar; the tree has no *)
(* statements and no last statement, and its token references are the one  *)
(* end-of-file reference with all the trivia, in source order, as leading  *)
(* trivia and with no trailing trivia.                                     *)
(***************************************************************************)
AllTriviaThenEof(toks) ==
    /\ EndsInEof(toks)
    /\ \A i \in 1..(Len(toks) - 1) :
          toks[i].token_type \in {"Whitespace", "SingleLineComment", "MultiLineComment"}

C7_EntirelyTrivia ==
    (entry = "from_tokens" /\ AllTriviaThenEof(tokens)) =>
        /\ pc # "parse"
        /\ "ParseBlock" \notin calls
        /\ outcome = <<>>
        /\ pc = "done" =>
              /\ result.tag = "Ok"
              /\ result.nodes = <<[stmts |-> <<>>, last_stmt |-> <<>>]>>
              /\ result.tokens =
                    << [leading_trivia |-> SubSeq(tokens, 1, Len(tokens) - 1),
                        token |-> tokens[Len(tokens)],
                        trailing_trivia |-> <<>>] >>

C7_Witness ==
    /\ entry = "from_tokens"
    /\ AllTriviaThenEof(tokens)
    /\ Len(tokens) >= 3
    /\ pc = "done"
    /\ result.tag = "Ok"

(***************************************************************************)
(* C8: Ast::from_tokens on an empty token list fails with Empty, before    *)
(* trivia attachment or the grammar is run.                                *)
(***************************************************************************)
C8_Empty ==
    (entry = "from_tokens" /\ tokens = <<>>) =>
        /\ pc \in {"from_tokens", "done"}
        /\ calls = {}
        /\ outcome = <<>>
        /\ pc = "done" => (result.tag = "Err" /\ result.error = "Empty")

C8_Witness ==
    /\ entry = "from_tokens"
    /\ tokens = <<>>
    /\ pc = "done"
    /\ result.error = "Empty"

(***************************************************************************)
(* C9: Ast::from_tokens on a non-empty token list whose last token is not  *)
(* end-of-file fails with NoEof, whatever the other tokens are (an earlier *)
(* end-of-file token included), before trivia attachment or the grammar    *)
(* is run.                                                                 *)
(***************************************************************************)
C9_NoEof ==
    (entry = "from_tokens" /\ tokens # <<>>
        /\ tokens[Len(tokens)].token_type # "Eof") =>
        /\ pc \in {"from_tokens", "done"}
        /\ calls = {}
        /\ outcome = <<>>
        /\ pc = "done" => (result.tag = "Err" /\ result.error = "NoEof")

C9_Witness ==
    /\ entry = "from_tokens"
    /\ Len(tokens) >= 2
    /\ tokens[Len(tokens)].token_type # "Eof"
    /\ \E i \in 1..(Len(tokens) - 1) : tokens[i].token_type = "Eof"
    /\ pc = "done"
    /\ result.error = "NoEof"

(***************************************************************************)
(* C10: when the root production succeeds, Ast::from_tokens returns a tree *)
(* exactly when the resulting cursor is the index of the last reference;   *)
(* otherwise it returns UnexpectedToken with the token under the resulting *)
(* cursor and the hint "leftover token".                                   *)
(***************************************************************************)
C10_Leftover ==
    (pc = "done" /\ outcome # <<>> /\ outcome[1].kind = "Ok") =>
        LET k == outcome[1].state.index IN
           /\ result.tag = "Ok" <=> k = Len(references) - 1
           /\ result.tag = "Ok" =>
                 (result.nodes = <<outcome[1].block>> /\ result.tokens = references)
           /\ k # Len(references) - 1 =>
                 /\ result.tag = "Err"
                 /\ result.error = "UnexpectedToken"
                 /\ result.token = <<references[k + 1].token>>
                 /\ result.additional = <<"leftover token">>
                 /\ result.nodes = <<>>

C10_Witness ==
    /\ pc = "done"
    /\ outcome # <<>>
    /\ outcome[1].kind = "Ok"
    /\ outcome[1].state.index > state.index
    /\ outcome[1].state.index < Len(references) - 1
    /\ result.additional = <<"leftover token">>

(***************************************************************************)
(* C11: when the root production fails with an internal UnexpectedToken,   *)
(* Ast::from_tokens returns UnexpectedToken with that same token and that  *)
(* same hint (an absent hint stays absent).                                *)
(***************************************************************************)
C11_PropagatesUnexpectedToken ==
    (pc = "done" /\ outcome # <<>> /\ outcome[1].kind = "UnexpectedToken") =>
        /\ result.tag = "Err"
        /\ result.error = "UnexpectedToken"
        /\ result.token = outcome[1].token
        /\ result.additional = outcome[1].additional
        /\ result.nodes = <<>>

C11_Witness ==
    /\ pc = "done"
    /\ outcome # <<>>
    /\ outcome[1].kind = "UnexpectedToken"
    /\ outcome[1].additional # <<>>
    /\ outcome[1].token # <<references[state.index + 1].token>>
    /\ result.error = "UnexpectedToken"

(***************************************************************************)
(* C12 as stated: every syntax failure the caller of Ast::from_tokens      *)
(* observes originates from an internal UnexpectedToken failure or from    *)
(* the leftover-token check, never from a NoMatch of the root production.  *)
(***************************************************************************)
C12_NeverFromNoMatch ==
    (pc = "done" /\ result.tag = "Err" /\ result.error = "UnexpectedToken") =>
        (outcome # <<>> /\ outcome[1].kind \in {"UnexpectedToken", "Ok"})

(***************************************************************************)
(* C12 as amended: an internal NoMatch never reaches the caller as such;   *)
(* every syntax failure the caller observes is an UnexpectedToken, which   *)
(* originates from an internal UnexpectedToken failure, from the           *)
(* leftover-token check, or from a NoMatch of the root production, which   *)
(* from_tokens reports as UnexpectedToken.                                 *)
(***************************************************************************)
C12_NoMatchReportedAsUnexpectedToken ==
    (entry = "from_tokens" /\ pc = "done") =>
        /\ result.error # "NoMatch"
        /\ (outcome # <<>> /\ outcome[1].kind = "NoMatch") =>
              (result.tag = "Err" /\ result.error = "UnexpectedToken")
        /\ (result.tag = "Err" /\ result.error \notin {"Empty", "NoEof"}) =>
              /\ result.error = "UnexpectedToken"
              /\ outcome # <<>>
              /\ \/ outcome[1].kind = "UnexpectedToken"
                 \/ outcome[1].kind = "NoMatch"
                 \/ /\ outcome[1].kind = "Ok"
                    /\ result.additional = <<"leftover token">>

C12_Witness ==
    /\ entry = "from_tokens"
    /\ pc = "done"
    /\ outcome # <<>>
    /\ outcome[1].kind = "NoMatch"
    /\ result.error = "UnexpectedToken"

(***************************************************************************)
(* C13: every call of Ast::from_tokens, for any token list and any outcome *)
(* of the root production, ends, and ends in exactly one of a complete     *)
(* tree, Empty, NoEof or UnexpectedToken; a failure carries no tree, and   *)
(* the call never aborts in another way.                                   *)
(***************************************************************************)
C13_FourOutcomes ==
    /\ [](entry = "from_tokens" => result.tag # "Panic")
    /\ []((entry = "from_tokens" /\ pc = "done") =>
            \/ /\ result.tag = "Err"
               /\ result.error \in {"Empty", "NoEof", "UnexpectedToken"}
               /\ result.nodes = <<>>
               /\ result.tokens = <<>>
               /\ ast = <<>>
               /\ result.error = "UnexpectedToken" <=> result.token # <<>>
            \/ /\ result.tag = "Ok"
               /\ result.error = ""
               /\ result.token = <<>>
               /\ Len(result.nodes) = 1
               /\ result.tokens = references
               /\ outcome # <<>> => outcome[1].state.index = Len(references) - 1)
    /\ (entry = "from_tokens") ~> (pc = "done")

C13_Witness ==
    /\ entry = "from_tokens"
    /\ pc = "done"
    /\ result.tag = "Err"
    /\ result.error = "UnexpectedToken"
    /\ outcome # <<>>
    /\ outcome[1].kind = "Ok"
    /\ outcome[1].block.stmts # <<>>

(***************************************************************************)
(* C15: for every Ast returned by Ast::from_tokens, eof() does not panic   *)
(* and returns the last reference of the stored sequence, whose token is   *)
(* of end-of-file kind.                                                    *)
(***************************************************************************)
C15_EofIsLast ==
    (ret # <<>> /\ ret[1].method = "eof") =>
        /\ ret[1].tag = "Ok"
        /\ ast # <<>>
        /\ ret[1].value = <<ast[1].tokens[Len(ast[1].tokens)]>>
        /\ ret[1].value[1].token.token_type = "Eof"

C15_Witness ==
    /\ ret # <<>>
    /\ ret[1].method = "eof"
    /\ outcome # <<>>
    /\ Len(ast[1].tokens) >= 2
    /\ ast[1].tokens[1].token.token_type # "Eof"

(***************************************************************************)
(* C16: on any successfully parsed Ast, iter_tokens yields the tokens used *)
(* to create the Ast in source order, ending with the end-of-file token.   *)
(***************************************************************************)
C16_IterTokens ==
    (ret # <<>> /\ ret[1].method = "iter_tokens") =>
        /\ ret[1].tag = "Ok"
        /\ ret[1].value = tokens
        /\ ret[1].value[Len(ret[1].value)].token_type = "Eof"

(***************************************************************************)
(* C18: extract_token_references returns exactly one reference per         *)
(* significant input token, in input order, and no trivia token is the     *)
(* token of a reference; the test input gives 7 references.                *)
(***************************************************************************)
Significant(t) ==
    t.token_type \notin {"Whitespace", "SingleLineComment", "MultiLineComment"}

C18_OneReferencePerSignificantToken ==
    Extracted =>
        /\ [i \in 1..Len(references) |-> references[i].token]
              = SelectSeq(tokens, Significant)
        /\ tokens = TestTokens => Len(references) = 7

C18_Witness ==
    /\ Extracted
    /\ Len(references) >= 2
    /\ Len(references) < Len(tokens)
    /\ references[1].token # references[2].token

(***************************************************************************)
(* C19: rendering a Block emits, for each statement in order, the          *)
(* statement's text followed by its separator's text when there is one,    *)
(* and after all statements the last statement followed by its optional    *)
(* separator; a Block with neither renders to the empty string.            *)
(***************************************************************************)
SepText(sep) == IF sep = <<>> THEN <<>> ELSE ConcatReferences(sep)

RECURSIVE StmtsText(_, _)
StmtsText(stmts, i) ==
    IF i > Len(stmts) THEN <<>>
    ELSE ConcatReferences(stmts[i][1]) \o SepText(stmts[i][2]) \o StmtsText(stmts, i + 1)

C19_BlockRendering ==
    (ret # <<>> /\ ret[1].method = "nodes.to_string") =>
        LET block == ast[1].nodes IN
           /\ ret[1].tag = "Ok"
           /\ ret[1].value =
                 StmtsText(block.stmts, 1)
                    \o (IF block.last_stmt = <<>> THEN <<>>
                        ELSE ConcatReferences(block.last_stmt[1][1])
                                \o SepText(block.last_stmt[1][2]))
           /\ (block.stmts = <<>> /\ block.last_stmt = <<>>) => ret[1].value = <<>>

C19_Witness ==
    /\ ret # <<>>
    /\ ret[1].method = "nodes.to_string"
    /\ Len(ast[1].nodes.stmts) >= 2
    /\ ast[1].nodes.stmts[1][2] # <<>>
    /\ ast[1].nodes.stmts[1][1] # ast[1].nodes.stmts[1][2]
    /\ ast[1].nodes.last_stmt # <<>>
    /\ ret[1].value # <<>>

(***************************************************************************)
(* C17: rendering a node never fails, with the roblox feature and without  *)
(* it; rendering a LocalAssignment completes and emits the local token,    *)
(* the name list, the optional equal token and the expression list, in     *)
(* that order.                                                             *)
(***************************************************************************)
C17_RenderingNeverFails ==
    (entry = "to_string" /\ ret # <<>>) =>
        /\ ret[1].tag = "Ok"
        /\ node[1].kind = "LocalAssignment" =>
              ret[1].value =
                 ConcatReferences(<<node[1].local_token>>)
                    \o ConcatReferences(node[1].name_list)
                    \o ConcatReferences(node[1].equal_token)
                    \o ConcatReferences(node[1].expr_list)

(***************************************************************************)
(* C20: a node bracketed by a ContainedSpan renders the opening delimiter  *)
(* first, then the enclosed content, then the closing delimiter, whatever  *)
(* the order in which its fields are declared.                             *)
(***************************************************************************)
IsPrefix(p, s) == Len(p) <= Len(s) /\ SubSeq(s, 1, Len(p)) = p

\* The ContainedSpan of a bracketed node and the text it encloses
SpanOf(n) ==
    CASE n.kind = "TableConstructor" -> n.braces
      [] n.kind = "Expression::Parentheses" -> n.contained
      [] n.kind = "Index::Brackets" -> n.brackets
      [] n.kind = "FunctionArgs::Parentheses" -> n.parentheses
      [] n.kind = "Field::ExpressionKey" -> n.brackets
      [] n.kind = "FunctionBody" -> n.parameters_parantheses

EnclosedText(n) ==
    CASE n.kind = "TableConstructor" ->
            StmtsText(n.fields, 1)
      [] n.kind \in {"Expression::Parentheses", "Index::Brackets"} ->
            ConcatReferences(n.expression)
      [] n.kind = "FunctionArgs::Parentheses" -> ConcatReferences(n.arguments)
      [] n.kind = "Field::ExpressionKey" -> ConcatReferences(n.key)
      [] n.kind = "FunctionBody" -> ConcatReferences(n.parameters)

Bracketed ==
    {"TableConstructor", "Expression::Parentheses", "Index::Brackets",
     "FunctionArgs::Parentheses", "Field::ExpressionKey", "FunctionBody"}

C20_DelimitersEncloseContent ==
    (entry = "to_string" /\ ret # <<>> /\ node[1].kind \in Bracketed) =>
        /\ ret[1].tag = "Ok"
        /\ IsPrefix(ConcatReferences(<<SpanOf(node[1]).tokens[1]>>)
                       \o EnclosedText(node[1])
                       \o ConcatReferences(<<SpanOf(node[1]).tokens[2]>>),
                    ret[1].value)
        /\ node[1].kind \in {"TableConstructor", "Expression::Parentheses",
                             "Index::Brackets", "FunctionArgs::Parentheses"} =>
              Len(ret[1].value) =
                 Len(ConcatReferences(<<SpanOf(node[1]).tokens[1]>>))
                    + Len(EnclosedText(node[1]))
                    + Len(ConcatReferences(<<SpanOf(node[1]).tokens[2]>>))

C20_Witness ==
    /\ entry = "to_string"
    /\ ret # <<>>
    /\ node[1].kind = "FunctionArgs::Parentheses"
    /\ Len(node[1].arguments) = 2
    /\ node[1].arguments[1] # node[1].arguments[2]
    /\ ret[1].tag = "Ok"

(***************************************************************************)
(* C21: iter_stmts on a Block yields exactly the block's statements in     *)
(* order, one item per statement, without the separator tokens and without *)
(* the last statement; its count is the number of statements (2 for a      *)
(* block of two statements with a separator between them).                 *)
(***************************************************************************)
C21_IterStmts ==
    (ret # <<>> /\ ret[1].method = "nodes.iter_stmts") =>
        LET block == ast[1].nodes IN
           /\ ret[1].tag = "Ok"
           /\ Len(ret[1].value) = Len(block.stmts)
           /\ \A i \in 1..Len(block.stmts) : ret[1].value[i] = block.stmts[i][1]
           /\ (Len(block.stmts) = 2 /\ block.stmts[1][2] # <<>>) =>
                 Len(ret[1].value) = 2

C21_Witness ==
    /\ ret # <<>>
    /\ ret[1].method = "nodes.iter_stmts"
    /\ Len(ast[1].nodes.stmts) = 2
    /\ ast[1].nodes.stmts[1][2] # <<>>
    /\ ast[1].nodes.last_stmt # <<>>
    /\ Len(ret[1].value) = 2
    /\ ret[1].value[1] # ret[1].value[2]

(***************************************************************************)
(* C22: the reference sequence stored in a returned Ast is exactly the     *)
(* output of trivia attachment on the input tokens: running the grammar    *)
(* neither adds, removes nor reorders references, and edits made through   *)
(* nodes_mut leave the stored sequence, and therefore eof(), unchanged.    *)
(***************************************************************************)
C22_StoredReferencesFrame ==
    /\ [][Extracted => references' = references]_vars
    /\ [](ast # <<>> => (Extracted /\ ast[1].tokens = references))
    /\ [][(ast # <<>> /\ ast' # <<>>) => ast'[1].tokens = ast[1].tokens]_vars
    /\ []((ret # <<>> /\ ret[1].method = "eof") =>
             ret[1].value = <<references[Len(references)]>>)

\* eof() called on an Ast whose root Block was edited after the parse
C22_Witness ==
    /\ ast # <<>>
    /\ outcome # <<>>
    /\ outcome[1].kind = "Ok"
    /\ ast[1].nodes # outcome[1].block
    /\ Len(ast[1].tokens) >= 3
    /\ ret # <<>>
    /\ ret[1].method = "eof"

(***************************************************************************)
(* C23: when the root production reports NoMatch, Ast::from_tokens returns *)
(* UnexpectedToken whose token is the significant token at the starting    *)
(* cursor, the first reference of the sequence, and whose hint is absent.  *)
(***************************************************************************)
C23_NoMatchAtStartingToken ==
    (pc = "done" /\ outcome # <<>> /\ outcome[1].kind = "NoMatch") =>
        /\ result.tag = "Err"
        /\ result.error = "UnexpectedToken"
        /\ result.token = <<references[1].token>>
        /\ Significant(result.token[1])
        /\ result.additional = <<>>
        /\ state.index = 0

C23_Witness ==
    /\ pc = "done"
    /\ outcome # <<>>
    /\ outcome[1].kind = "NoMatch"
    /\ Len(references) >= 3
    /\ references[1].leading_trivia # <<>>
    /\ references[1].token # references[Len(references)].token
    /\ result.token = <<references[1].token>>

(***************************************************************************)
(* C24: in Ast::from_tokens the token at the initial cursor is never       *)
(* trivia, because every reference produced by trivia attachment has a     *)
(* significant token; the conditional initial advance is never taken, its  *)
(* unwrap is never reached, and the root production always starts at       *)
(* reference index 0.                                                      *)
(***************************************************************************)
C24_StartsAtIndexZero ==
    /\ \A i \in 1..Len(references) : Significant(references[i].token)
    /\ pc \in {"filter", "parse"} =>
          (references # <<>> /\ Significant(references[1].token))
    /\ (pc = "parse" \/ outcome # <<>>) => state.index = 0
    /\ ~(result.tag = "Panic" /\ result.error = "advance")

C24_Witness ==
    /\ pc = "parse"
    /\ tokens[1].token_type \in {"Whitespace", "SingleLineComment", "MultiLineComment"}
    /\ references[1].leading_trivia # <<>>
    /\ state.index = 0

(***************************************************************************)
(* C25: for every reference returned by extract_token_references other     *)
(* than the first, the leading trivia is empty or begins with a whitespace *)
(* token whose text starts with a newline; only the first reference can    *)
(* have leading trivia that begins with a comment or with same-line        *)
(* whitespace.                                                             *)
(***************************************************************************)
C25_LeadingTriviaBeginsWithNewline ==
    \A i \in 1..Len(references) :
        (references[i].leading_trivia # <<>>
            /\ ~LeadingNewlineWhitespace(references[i].leading_trivia[1]))
           => i = 1

C25_Witness ==
    /\ Extracted
    /\ Len(references) >= 2
    /\ references[1].leading_trivia # <<>>
    /\ ~LeadingNewlineWhitespace(references[1].leading_trivia[1])
    /\ \E i \in 2..Len(references) : references[i].leading_trivia # <<>>

(***************************************************************************)
(* C26: extract_token_references called on a sequence that does not end in *)
(* a significant token silently drops the trivia that follows the last     *)
(* significant token and is not attached to it as trailing trivia (a       *)
(* sequence of only trivia yields no reference at all); Ast::from_tokens   *)
(* never reaches attachment with such a sequence, because it rejects any   *)
(* list whose last token is not end-of-file.                               *)
(***************************************************************************)
\* Position of the last significant token of an input, 0 when there is none
LastSignificant(toks) ==
    IF \E i \in 1..Len(toks) : Significant(toks[i])
    THEN CHOOSE i \in 1..Len(toks) :
            Significant(toks[i]) /\ \A j \in (i + 1)..Len(toks) : ~Significant(toks[j])
    ELSE 0

\* Number of tokens after position n that come before the first whitespace
\* starting with a newline
SameLineLen(toks, n) ==
    CHOOSE k \in 0..(Len(toks) - n) :
        /\ \A j \in 1..k : ~LeadingNewlineWhitespace(toks[n + j])
        /\ k = Len(toks) - n \/ LeadingNewlineWhitespace(toks[n + k + 1])

C26_DropsTriviaAfterLastSignificant ==
    /\ (entry = "extract_token_references" /\ pc = "done") =>
          LET n == LastSignificant(tokens) IN
             /\ result.tag = "Vec"
             /\ n = 0 => result.tokens = <<>>
             /\ n > 0 =>
                   Flatten(result.tokens) = SubSeq(tokens, 1, n + SameLineLen(tokens, n))
    /\ (entry = "from_tokens" /\ "extract_token_references" \in calls) =>
          (tokens # <<>> /\ tokens[Len(tokens)].token_type = "Eof")

C26_Witness ==
    /\ entry = "extract_token_references"
    /\ pc = "done"
    /\ result.tokens # <<>>
    /\ result.tokens[Len(result.tokens)].trailing_trivia # <<>>
    /\ Len(Flatten(result.tokens)) < Len(tokens)

====
